---- MODULE Spec2Model ----
(***************************************************************************)
(* A model of src/main.py: the per-conversation loop of main() and the     *)
(* traversal of get_conversation_messages(), one step per loop iteration.  *)
(*                                                                         *)
(* Representation of the JSON input:                                       *)
(*   - an optional value (a key that is absent or null) is a sequence of   *)
(*     length 0 or 1: Nothing, Some(x);                                    *)
(*   - a node id is a string; the null parent is the string None;          *)
(*   - a text is a sequence of chunks (strings); a chunk of Whitespace is  *)
(*     one whitespace character, any other chunk holds no whitespace;      *)
(*   - a title is a text whose chunks are single characters;               *)
(*   - a mapping is the dict's entries (nodes) and the order in which      *)
(*     mapping.items() yields them (order);                                *)
(*   - a timestamp counts half seconds, so that two different timestamps   *)
(*     can fall in the same second.                                        *)
(***************************************************************************)
EXTENDS Integers, Sequences, FiniteSets

VARIABLES
    conversations,    \* the list json.load returned (never changed)
    idx,              \* position of the for loop: conversations[idx] is convo
    pc,               \* where main is: "for", "find_root", "while", "check", "done", "raised"
    filename,         \* main's filename
    root_node_id,     \* get_conversation_messages' root_node_id
    current_node_id,  \* get_conversation_messages' current_node_id
    messages,         \* the list of blocks being built, then main's messages
    count,            \* main's count
    files,            \* the output directory: path -> what the file holds
    exc,              \* the exception that ended the run, if any
    visited,          \* history: the node ids the while loop fetched, in order
    origin,           \* history: origin[i] is the node messages[i] was rendered from
    outcome           \* history: outcome[i] is how conversations[i] ended

vars == <<conversations, idx, pc, filename, root_node_id, current_node_id,
          messages, count, files, exc, visited, origin, outcome>>

-----------------------------------------------------------------------------
(* Bounds of the model *)

MaxVisits == 6

MaxConvos == 2

-----------------------------------------------------------------------------
(* Values *)

None == "None"

Nothing == <<>>

Some(x) == <<x>>

Get(o) == o[1]

Min(S) == CHOOSE x \in S : \A y \in S : x <= y

Whitespace == {" ", "\n", "\t"}

OUTPUT_DIR == <<"chatgpt_exports">>

MaxFilenameLen == 100

-----------------------------------------------------------------------------
(* str methods *)

UpperCase == <<"A","B","C","D","E","F","G","H","I","J","K","L","M",
               "N","O","P","Q","R","S","T","U","V","W","X","Y","Z">>

LowerCase == <<"a","b","c","d","e","f","g","h","i","j","k","l","m",
               "n","o","p","q","r","s","t","u","v","w","x","y","z">>

\* str.lower() on a text of single characters
lower(s) ==
    [i \in 1..Len(s) |->
        IF \E k \in 1..26 : UpperCase[k] = s[i]
        THEN LowerCase[CHOOSE k \in 1..26 : UpperCase[k] = s[i]]
        ELSE s[i]]

\* str.title() on a role label: a lower-case word with its first letter in
\* upper case (the labels of the model are single words)
title_case(role) ==
    CASE role = "user" -> "User"
      [] role = "assistant" -> "Assistant"
      [] role = "system" -> "System"
      [] role = "tool" -> "Tool"
      [] OTHER -> role

\* str.strip(): the text without its leading and trailing whitespace
RECURSIVE lstrip(_)
lstrip(s) == IF s # <<>> /\ s[1] \in Whitespace THEN lstrip(Tail(s)) ELSE s

RECURSIVE rstrip(_)
rstrip(s) ==
    IF s # <<>> /\ s[Len(s)] \in Whitespace
    THEN rstrip(SubSeq(s, 1, Len(s) - 1))
    ELSE s

strip(s) == rstrip(lstrip(s))

\* "".join(seq_of_texts)
RECURSIVE join(_)
join(ss) == IF ss = <<>> THEN <<>> ELSE ss[1] \o join(Tail(ss))

-----------------------------------------------------------------------------
(* sanitize_filename *)

IllegalChars == {"\\", "/", "*", "?", ":", "\"", "<", ">", "|"}

sanitize_filename(name) ==
    LET removed == SelectSeq(name, LAMBDA c : c \notin IllegalChars)
        sanitized == [i \in 1..Len(removed) |->
                         IF removed[i] = " " THEN "_" ELSE removed[i]]
    IN  SubSeq(sanitized, 1,
               IF Len(sanitized) < MaxFilenameLen THEN Len(sanitized)
               ELSE MaxFilenameLen)

-----------------------------------------------------------------------------
(* format_message_part *)

\* A part is [kind, content_type, text]: kind "str" is a plain string (text),
\* kind "dict" an object with a content_type and a text (<<>> when it has
\* none), kind "other" any other JSON value.
StrPart(t) == [kind |-> "str", content_type |-> "", text |-> t]

DictPart(ct, t) == [kind |-> "dict", content_type |-> ct, text |-> t]

OtherPart == [kind |-> "other", content_type |-> "", text |-> <<>>]

\* The chunks of a code fence; [fence] stands for the three backquotes, which
\* cannot be written in a string of this language.
FenceOpen == "[fence]python"

FenceClose == "[fence]"

format_message_part(part) ==
    IF part.kind = "str" THEN part.text
    ELSE IF part.kind = "dict"
         THEN IF part.content_type = "code"
              THEN <<"\n", FenceOpen, "\n">> \o part.text \o <<"\n", FenceClose, "\n">>
              ELSE IF part.content_type = "text" THEN part.text
              ELSE <<>>
         ELSE <<>>

-----------------------------------------------------------------------------
(* get_conversation_messages *)

\* node.get('message') is truthy
HasMessage(node) == node.message # Nothing

\* ScanRoot with the test of the parent inverted
ScanRootInverted(m) ==
    LET parented == {i \in 1..Len(m.order) : m.nodes[m.order[i]].parent # None}
    IN  IF parented = {} THEN None ELSE m.order[Min(parented)]

\* The scan for the root: the first entry of mapping.items() whose parent is
\* None, or None when every node has a parent.
ScanRoot(m) ==
    LET rootless == {i \in 1..Len(m.order) : m.nodes[m.order[i]].parent = None}
    IN  IF rootless = {} THEN None ELSE m.order[Min(rootless)]

\* (node for node in mapping.values() if node.get('message'))
MessageNodes(m) ==
    LET all == [i \in 1..Len(m.order) |-> m.nodes[m.order[i]]]
    IN  SelectSeq(all, HasMessage)

\* sorted() compares the keys of neighbouring elements: with two or more
\* elements every key is compared, and comparing None raises TypeError. (A
\* create_time that is null is what an export holds; a message with no
\* create_time key at all, a KeyError in the key function, is not among the
\* inputs.)
SortRaises(s) ==
    /\ Len(s) >= 2
    /\ \E i \in 1..Len(s) : Get(s[i].message).create_time = Nothing

SortKey(node) == Get(Get(node.message).create_time)

\* x put into the sorted s behind every element whose key is not larger
RECURSIVE insort(_, _)
insort(s, x) ==
    IF s = <<>> THEN <<x>>
    ELSE IF SortKey(x) < SortKey(s[1]) THEN <<x>> \o s
    ELSE <<s[1]>> \o insort(Tail(s), x)

\* sorted(s, key=lambda x: x['message']['create_time']): ascending and stable
RECURSIVE sorted(_)
sorted(s) ==
    IF s = <<>> THEN <<>>
    ELSE insort(sorted(SubSeq(s, 1, Len(s) - 1)), s[Len(s)])

\* The test of the block's if, up to the author: message_data and
\* message_data.get('content')
HasContent(node) ==
    /\ HasMessage(node)
    /\ Get(node.message).content # Nothing

\* message_data['author']['role'] raises KeyError when there is no author
AuthorRaises(node) == HasContent(node) /\ Get(node.message).author = Nothing

\* Renderable without the test of the role
RenderableAnyRole(node) == HasContent(node)

\* The whole test of the block's if
Renderable(node) ==
    /\ HasContent(node)
    /\ Get(Get(node.message).author) # "system"

\* "".join(format_message_part(part) for part in content_parts)
FullText(node) ==
    LET content_parts == Get(Get(node.message).content)
    IN  join([i \in 1..Len(content_parts) |-> format_message_part(content_parts[i])])

Block(node) ==
    <<"## ", title_case(Get(Get(node.message).author)), "\n", "\n">>
        \o FullText(node) \o <<"\n", "\n", "---", "\n", "\n">>

\* if full_text.strip()
NonBlank(text) == strip(text) # <<>>

\* NextNode following the last child instead of the first
NextNodeLast(node) ==
    IF node.children # <<>> THEN node.children[Len(node.children)] ELSE None

\* The node the loop moves to, None when it breaks
NextNode(node) ==
    IF node.children # <<>> THEN node.children[1] ELSE None

-----------------------------------------------------------------------------
(* main *)

NewChat == <<"n", "e", "w", " ", "c", "h", "a", "t">>

\* if title and title.lower() not in ["new chat", ""]
Titled(convo) ==
    /\ convo.title # Nothing
    /\ Get(convo.title) # <<>>
    /\ lower(Get(convo.title)) \notin {NewChat, <<>>}

\* datetime.fromtimestamp(t).strftime('%Y-%m-%d_%H-%M-%S'), for the first
\* seconds of the epoch: the fraction of the second is dropped
Strftime == <<"1970-01-01_00-00-00", "1970-01-01_00-00-01",
              "1970-01-01_00-00-02", "1970-01-01_00-00-03">>

date_str(t) == Strftime[(t \div 2) + 1]

\* datetime.fromtimestamp(None) raises TypeError
FilenameRaises(convo) == ~Titled(convo) /\ convo.create_time = Nothing

Filename(convo) ==
    IF Titled(convo)
    THEN sanitize_filename(Get(convo.title)) \o <<".md">>
    ELSE <<"conversation_", date_str(Get(convo.create_time)), ".md">>

\* os.path.join(OUTPUT_DIR, filename)
output_path(name) == OUTPUT_DIR \o <<"/">> \o name

\* f"# {title or 'Conversation'}\n\n" followed by "".join(messages)
Document(convo, blocks) ==
    <<"# ">>
        \o (IF convo.title # Nothing /\ Get(convo.title) # <<>>
            THEN Get(convo.title) ELSE <<"Conversation">>)
        \o <<"\n", "\n">> \o join(blocks)

\* CountAfterWrite with the increment moved behind the try block
CountAfterWriteAlways(c, result) == c + 1

\* count after the try block of the write, which ended as result says
CountAfterWrite(c, result) == IF result = "saved" THEN c + 1 ELSE c

-----------------------------------------------------------------------------
(* The run of main over the loaded archive *)

\* convo and its mapping, while the loop is at conversations[idx]
Convo == conversations[idx]

Mapping == Get(Convo.mapping)

\* An exception nothing catches ends the run: main has no handler around the
\* loop body other than the one around the write.
Raise(type, at) ==
    /\ pc' = "raised"
    /\ exc' = Some([type |-> type, at |-> at])
    /\ outcome' = Append(outcome, "raised")

\* Lines 128-141 and 45-49: the next record, its filename, and the call of
\* get_conversation_messages up to the test of 'mapping'.
NextConversation ==
    /\ pc = "for"
    /\ idx < Len(conversations)
    /\ idx' = idx + 1
    /\ LET convo == conversations[idx + 1]
       IN  IF FilenameRaises(convo)
           THEN /\ Raise("TypeError", "fromtimestamp")
                /\ UNCHANGED <<filename, messages>>
           ELSE /\ filename' = Filename(convo)
                /\ messages' = <<>>
                /\ pc' = IF convo.mapping = Nothing THEN "check" ELSE "find_root"
                /\ UNCHANGED <<exc, outcome>>
    /\ root_node_id' = None
    /\ current_node_id' = None
    /\ visited' = <<>>
    /\ origin' = <<>>
    /\ UNCHANGED <<conversations, count, files>>

\* Lines 51-71: the root, by the scan or by the earliest message.
FindRoot ==
    /\ pc = "find_root"
    /\ LET scanned == ScanRoot(Mapping)
           nodes == MessageNodes(Mapping)
       IN  IF scanned # None
           THEN /\ root_node_id' = scanned
                /\ current_node_id' = scanned
                /\ pc' = "while"
                /\ UNCHANGED <<exc, outcome>>
           ELSE IF SortRaises(nodes)
           THEN /\ Raise("TypeError", "sorted")
                /\ UNCHANGED <<root_node_id, current_node_id>>
           ELSE IF nodes = <<>>
           THEN /\ pc' = "check"
                /\ UNCHANGED <<root_node_id, current_node_id, exc, outcome>>
           ELSE /\ root_node_id' = sorted(nodes)[1].id
                /\ current_node_id' = sorted(nodes)[1].id
                /\ pc' = "while"
                /\ UNCHANGED <<exc, outcome>>
    /\ UNCHANGED <<conversations, idx, filename, messages, count, files,
                   visited, origin>>

\* Lines 72-94: one iteration of the while loop. A mapping whose first-child
\* pointers form a cycle keeps the loop going for ever; the model follows it
\* for MaxVisits iterations.
WalkStep ==
    /\ pc = "while"
    /\ current_node_id \in DOMAIN Mapping.nodes
    /\ Len(visited) < MaxVisits
    /\ LET node == Mapping.nodes[current_node_id]
       IN  /\ visited' = Append(visited, current_node_id)
           /\ IF AuthorRaises(node)
              THEN /\ Raise("KeyError", "author")
                   /\ UNCHANGED <<messages, origin, current_node_id>>
              ELSE /\ IF Renderable(node) /\ NonBlank(FullText(node))
                      THEN /\ messages' = Append(messages, Block(node))
                           /\ origin' = Append(origin, current_node_id)
                      ELSE UNCHANGED <<messages, origin>>
                   /\ current_node_id' =
                          IF NextNode(node) # None THEN NextNode(node)
                          ELSE current_node_id
                   /\ pc' = IF NextNode(node) # None THEN "while" ELSE "check"
                   /\ UNCHANGED <<exc, outcome>>
    /\ UNCHANGED <<conversations, idx, filename, root_node_id, count, files>>

\* Line 72 when current_node_id is no key of the mapping, and line 96.
WalkExit ==
    /\ pc = "while"
    /\ current_node_id \notin DOMAIN Mapping.nodes
    /\ pc' = "check"
    /\ UNCHANGED <<conversations, idx, filename, root_node_id, current_node_id,
                   messages, count, files, exc, visited, origin, outcome>>

\* Lines 142-144: no block, no file.
Skip ==
    /\ pc = "check"
    /\ messages = <<>>
    /\ pc' = "for"
    /\ outcome' = Append(outcome, "skipped")
    /\ UNCHANGED <<conversations, idx, filename, root_node_id, current_node_id,
                   messages, count, files, exc, visited, origin>>

\* What the output directory holds after the write ended as result says:
\* open(path, 'w') creates or empties the file, the writes fill it.
FilesAfterWrite(fs, path, text, result) ==
    IF result = "open_failed" THEN fs
    ELSE [p \in DOMAIN fs \cup {path} |->
             IF p = path
             THEN [text |-> IF result = "saved" THEN text ELSE <<>>,
                   complete |-> result = "saved",
                   by |-> idx]
             ELSE fs[p]]

\* Lines 146-155: the write, which the file system lets through or not.
WriteFile ==
    /\ pc = "check"
    /\ messages # <<>>
    /\ \E result \in {"saved", "open_failed", "write_failed"} :
          /\ files' = FilesAfterWrite(files, output_path(filename),
                                      Document(Convo, messages), result)
          /\ count' = CountAfterWrite(count, result)
          /\ outcome' = Append(outcome, result)
    /\ pc' = "for"
    /\ UNCHANGED <<conversations, idx, filename, root_node_id, current_node_id,
                   messages, exc, visited, origin>>

\* Line 157: the loop is over.
Summary ==
    /\ pc = "for"
    /\ idx = Len(conversations)
    /\ pc' = "done"
    /\ UNCHANGED <<conversations, idx, filename, root_node_id, current_node_id,
                   messages, count, files, exc, visited, origin, outcome>>

Next ==
    \/ NextConversation
    \/ FindRoot
    \/ WalkStep
    \/ WalkExit
    \/ Skip
    \/ WriteFile
    \/ Summary

-----------------------------------------------------------------------------
(* The archives: the inputs of the run *)

Range(s) == {s[i] : i \in 1..Len(s)}

NodeIds == {"a", "b", "c"}

\* an id that is no key of the mapping
Dangling == "x"

\* A node: its id field is the key it is stored under, as in an export.
Node(id, parent, children, message) ==
    [id |-> id, parent |-> parent, children |-> children, message |-> message]

Message(author, content, create_time) ==
    [author |-> author, content |-> content, create_time |-> create_time]

Conversation(title, create_time, mapping) ==
    [title |-> title, create_time |-> create_time, mapping |-> mapping]

Hello(role, t) == Some(Message(Some(role), Some(<<StrPart(<<"Hello">>)>>), t))

\* the parent field of a node that has one: a node that lists it as a child,
\* or an id that is no key of the mapping
ParentOf(children, n) ==
    IF \E p \in NodeIds : \E i \in 1..Len(children[p]) : children[p][i] = n
    THEN CHOOSE p \in NodeIds : \E i \in 1..Len(children[p]) : children[p][i] = n
    ELSE Dangling

Permutations(S) ==
    {s \in [1..Cardinality(S) -> S] : \A i, j \in 1..Cardinality(S) : s[i] = s[j] => i = j}

Chain == [n \in NodeIds |-> CASE n = "a" -> <<"b">> [] n = "b" -> <<"c">> [] OTHER -> <<>>]

DefaultOrder == <<"a", "b", "c">>

DefaultTimes == [n \in NodeIds |-> CASE n = "a" -> 3 [] n = "b" -> 1 [] OTHER -> 2]

\* Trees: five nodes, each listed as a child by the node its parent field
\* names (any node, itself included, or none), a node's children in the
\* order of their ids. Among them are all forests of five nodes and the
\* mappings whose pointers run in a cycle; every node carries a user message.
TreeOrder == <<"a", "b", "c", "d", "e">>

TreeIds == Range(TreeOrder)

TreeTimes == [n \in TreeIds |->
                 CASE n = "a" -> 3 [] n = "b" -> 1 [] n = "c" -> 2
                   [] n = "d" -> 4 [] OTHER -> 5]

TreeMapping(parent) ==
    [order |-> TreeOrder,
     nodes |-> [n \in TreeIds |->
                   Node(n, parent[n],
                        SelectSeq(TreeOrder, LAMBDA c : parent[c] = n),
                        Hello("user", Some(TreeTimes[n])))]]

\* Shapes: every assignment of children lists (up to two children, the first
\* possibly dangling), with the root marked or with no node marked as root;
\* every node carries a user message.
ChildLists ==
    {<<>>} \cup {<<c>> : c \in NodeIds \cup {Dangling}}
           \cup {<<c, d>> : c \in NodeIds \cup {Dangling}, d \in NodeIds}

ShapeMapping(children, rootless) ==
    [order |-> DefaultOrder,
     nodes |-> [n \in NodeIds |->
                   Node(n, IF n \in rootless THEN None ELSE ParentOf(children, n),
                        children[n], Hello("user", Some(DefaultTimes[n])))]]

\* Roots: a chain whose nodes may lack a parent, a message or a timestamp, in
\* every iteration order.
RootMessages ==
    {Nothing, Hello("user", Nothing), Hello("user", Some(1)), Hello("assistant", Some(2))}

RootMapping(order, rootless, message) ==
    [order |-> order,
     nodes |-> [n \in NodeIds |->
                   Node(n, IF n \in rootless THEN None ELSE ParentOf(Chain, n),
                        Chain[n], message[n])]]

\* Contents: a chain whose first two nodes carry any message of MessageKinds.
Contents ==
    {Nothing,
     Some(<<>>),
     Some(<<StrPart(<<" ">>)>>),
     Some(<<StrPart(<<"Hello">>)>>),
     Some(<<DictPart("code", <<"print(1)">>)>>),
     Some(<<DictPart("text", <<"\n">>)>>),
     Some(<<DictPart("image", <<"pixels">>)>>),
     Some(<<OtherPart>>),
     Some(<<StrPart(<<" ">>), DictPart("text", <<"ok">>), StrPart(<<"\n">>)>>)}

Authors == {Nothing, Some("user"), Some("assistant"), Some("system")}

MessageKinds ==
    {Nothing} \cup {Some(Message(a, c, Some(1))) : a \in Authors, c \in Contents}

ContentMapping(ma, mb) ==
    [order |-> DefaultOrder,
     nodes |-> [n \in NodeIds |->
                   Node(n, IF n = "a" THEN None ELSE ParentOf(Chain, n), Chain[n],
                        CASE n = "a" -> ma [] n = "b" -> mb
                          [] OTHER -> Hello("user", Some(2)))]]

\* the archive of one titled record with the mapping m
Single(m) == <<Conversation(Some(<<"t">>), Some(2), Some(m))>>

\* Archives of several records: titles that name the file or not, that
\* sanitize to the same name, timestamps of the same second, and mappings
\* with a message, without one, without an author, or no mapping at all.
MappingOf(message) ==
    [order |-> DefaultOrder,
     nodes |-> [n \in NodeIds |->
                   Node(n, IF n = "a" THEN None ELSE ParentOf(Chain, n), Chain[n],
                        IF n = "b" THEN message ELSE Nothing)]]

Headers ==
    {<<Nothing, Nothing>>, <<Nothing, Some(2)>>, <<Nothing, Some(3)>>,
     <<Some(<<"N", "e", "w", " ", "C", "h", "a", "t">>), Some(2)>>,
     <<Some(<<"a", " ">>), Some(2)>>,
     <<Some(<<"a", "/", "_">>), Some(2)>>}

ConvoKinds ==
    {Conversation(h[1], h[2], Some(MappingOf(m))) :
        h \in Headers, m \in {Hello("user", Some(1)), Nothing}}
    \cup {Conversation(Some(<<"a", " ">>), Some(2), Nothing),
          Conversation(Some(<<"a", " ">>), Some(2),
                       Some(MappingOf(Some(Message(Nothing,
                                Some(<<StrPart(<<"Hello">>)>>), Some(1))))))}

SeveralArchives == UNION {[1..k -> ConvoKinds] : k \in 0..MaxConvos}

Init ==
    /\ \/ \E parent \in [TreeIds -> TreeIds \cup {None}] :
              conversations = Single(TreeMapping(parent))
       \/ \E children \in [NodeIds -> ChildLists], rootless \in {{"a"}, {}} :
              conversations = Single(ShapeMapping(children, rootless))
       \/ \E order \in Permutations(NodeIds), rootless \in SUBSET NodeIds,
             message \in [NodeIds -> RootMessages] :
              conversations = Single(RootMapping(order, rootless, message))
       \/ \E ma \in MessageKinds, mb \in MessageKinds :
              conversations = Single(ContentMapping(ma, mb))
       \/ conversations \in SeveralArchives
    /\ idx = 0
    /\ pc = "for"
    /\ filename = <<>>
    /\ root_node_id = None
    /\ current_node_id = None
    /\ messages = <<>>
    /\ count = 0
    /\ files = <<>>
    /\ exc = Nothing
    /\ visited = <<>>
    /\ origin = <<>>
    /\ outcome = <<>>

Spec == Init /\ [][Next]_vars

-----------------------------------------------------------------------------
(* Vocabulary of the properties *)

NoDuplicates(s) == \A i, j \in 1..Len(s) : s[i] = s[j] => i = j

\* the loop is at a record that has a mapping
AtMapping == idx >= 1 /\ Convo.mapping # Nothing

\* ... and the root selection of that record is over
PastFindRoot ==
    /\ AtMapping
    /\ \/ pc \in {"while", "check", "for", "done"}
       \/ pc = "raised" /\ Get(exc).at # "fromtimestamp"

Keys(m) == DOMAIN m.nodes

ChildrenOf(m, S) ==
    {c \in Keys(m) : \E p \in S : c \in Range(m.nodes[p].children)}

RECURSIVE Closure(_, _)
Closure(m, S) ==
    LET T == S \cup ChildrenOf(m, S)
    IN  IF T = S THEN S ELSE Closure(m, T)

\* n and its descendants through any child
Subtree(m, n) == IF n \in Keys(m) THEN Closure(m, {n}) ELSE {}

\* the descendants of n through first children only
FirstChildLine(m, n) ==
    LET first(S) == {c \in Keys(m) : \E p \in S :
                        m.nodes[p].children # <<>> /\ m.nodes[p].children[1] = c}
        grow[k \in 0..Cardinality(Keys(m))] ==
            IF k = 0 THEN first({n}) ELSE grow[k - 1] \cup first(grow[k - 1])
    IN  grow[Cardinality(Keys(m))]

\* the nodes under a child, other than the first, of a visited node
OffLine(m) ==
    UNION {UNION {Subtree(m, m.nodes[v].children[k]) :
                     k \in 2..Len(m.nodes[v].children)} :
              v \in Range(visited)}

\* the children lists form a forest: no node is listed twice, none is its own
\* descendant
Forest(m) ==
    /\ \A n \in Keys(m) :
          Cardinality(UNION {{<<p, k>> : k \in {i \in 1..Len(m.nodes[p].children) :
                                                    m.nodes[p].children[i] = n}} :
                                p \in Keys(m)}) <= 1
    /\ \A n \in Keys(m) : n \notin Closure(m, ChildrenOf(m, {n}))

\* visited is the start of the path from the root through first children,
\* and all of it once the traversal has returned
OnMainLine(m) ==
    /\ visited # <<>> => visited[1] = root_node_id
    /\ \A i \in 1..(Len(visited) - 1) :
          /\ m.nodes[visited[i]].children # <<>>
          /\ visited[i + 1] = m.nodes[visited[i]].children[1]
    /\ Range(origin) \subseteq Range(visited)
    /\ (pc \in {"check", "for", "done"} /\ root_node_id # None) =>
          /\ visited # <<>>
          /\ LET last == m.nodes[visited[Len(visited)]]
             IN  last.children = <<>> \/ last.children[1] \notin Keys(m)

-----------------------------------------------------------------------------
(* The claims *)

\* C1 as stated: for every mapping, the nodes visited are the path from the
\* selected root through first children, and no node under a child other
\* than the first of a visited node is visited or yields a block.
C1_MainLineOnly ==
    AtMapping =>
        /\ OnMainLine(Mapping)
        /\ Range(visited) \cap OffLine(Mapping) = {}
        /\ Range(origin) \cap OffLine(Mapping) = {}

\* C1 amended: the same, for every mapping whose children lists form a forest
\* (no node listed as a child twice, no node its own descendant).
C1_MainLineOnlyInForest ==
    (AtMapping /\ Forest(Mapping)) =>
        /\ OnMainLine(Mapping)
        /\ Range(visited) \cap OffLine(Mapping) = {}
        /\ Range(origin) \cap OffLine(Mapping) = {}

\* C1 witness: in a forest, the root has two children, each with a child of
\* its own, and the traversal has returned with the blocks of the root, of
\* its first child and of that child's child.
C1_Witness ==
    /\ AtMapping /\ Forest(Mapping)
    /\ pc = "check"
    /\ Len(visited) = 3
    /\ origin = visited
    /\ LET root == Mapping.nodes[visited[1]]
       IN  /\ Len(root.children) = 2
           /\ visited[2] = root.children[1]
           /\ Cardinality(Subtree(Mapping, root.children[1])) = 2
           /\ Cardinality(Subtree(Mapping, root.children[2])) = 2

C3_StopsOnRevisit == NoDuplicates(visited)

\* C4: whatever happens while a record is processed, the loop goes on to the
\* remaining records: the run ends only at the summary, all records done.
C4_FailureIsolated ==
    pc \in {"done", "raised"} =>
        /\ pc = "done"
        /\ Len(outcome) = Len(conversations)

\* C5: every conversation exported successfully has an output file of its
\* own: the files written are as many as the counted conversations.
C5_OneFilePerConversation ==
    /\ \A i \in 1..Len(outcome) :
          outcome[i] = "saved" =>
              \E p \in DOMAIN files : files[p].by = i /\ files[p].complete
    /\ Cardinality({p \in DOMAIN files : files[p].complete}) = count

\* C6: when exactly one node of the mapping has no parent, the traversal
\* starts at that node, whatever the order of the mapping's entries.
C6_RootIsTheParentlessNode ==
    PastFindRoot =>
        \A r \in Keys(Mapping) :
            {n \in Keys(Mapping) : Mapping.nodes[n].parent = None} = {r} =>
                /\ root_node_id = r
                /\ visited # <<>> => visited[1] = r

\* C6 witness: the only parentless node is not the first entry of the
\* mapping, and the traversal has fetched it first.
C6_Witness ==
    /\ PastFindRoot
    /\ visited # <<>>
    /\ visited[1] # Mapping.order[1]
    /\ {n \in Keys(Mapping) : Mapping.nodes[n].parent = None} = {visited[1]}

\* C7: when every node has a parent, the traversal starts at the node that
\* carries the message with the smallest create_time; when no node carries
\* a message the result is empty.
C7_FallbackRoot ==
    (PastFindRoot /\ \A n \in Keys(Mapping) : Mapping.nodes[n].parent # None) =>
        LET carrying == {n \in Keys(Mapping) : HasMessage(Mapping.nodes[n])}
            time(n) == Get(Get(Mapping.nodes[n].message).create_time)
        IN  IF carrying = {}
            THEN root_node_id = None /\ messages = <<>> /\ pc # "raised"
            ELSE /\ root_node_id \in carrying
                 /\ \A n \in carrying \ {root_node_id} :
                       time(root_node_id) <= time(n)
                 /\ visited # <<>> => visited[1] = root_node_id

\* a node whose message is authored by "system"
IsSystem(node) ==
    /\ HasMessage(node)
    /\ Get(node.message).author = Some("system")

\* a node with no message, no content or no parts, or whose rendered parts
\* are empty or whitespace only
IsBlank(node) == ~HasContent(node) \/ ~NonBlank(FullText(node))

\* the loop fetches the node n in this step
Fetches(n) ==
    /\ pc = "while"
    /\ visited' = Append(visited, n)

\* the step appends no block and moves to the first child of node, or
\* returns when it has none
PassesOver(node) ==
    /\ messages' = messages
    /\ IF node.children # <<>>
       THEN pc' = "while" /\ current_node_id' = node.children[1]
       ELSE pc' = "check"

\* C8: no block comes from a node whose author role is "system", whatever
\* its content, and the traversal goes on from it to its first child.
C8_SystemSuppressed ==
    [][/\ AtMapping' =>
             \A i \in 1..Len(origin') : ~IsSystem(Mapping'.nodes[origin'[i]])
       /\ pc = "while" => \A n \in Keys(Mapping) :
             (Fetches(n) /\ IsSystem(Mapping.nodes[n])) =>
                 PassesOver(Mapping.nodes[n])]_vars

\* C8 witness: a system node with text and a child was fetched, no block
\* came from it, and the child was fetched after it.
C8_Witness ==
    /\ AtMapping
    /\ Len(visited) >= 2
    /\ IsSystem(Mapping.nodes[visited[1]])
    /\ HasContent(Mapping.nodes[visited[1]])
    /\ NonBlank(FullText(Mapping.nodes[visited[1]]))
    /\ visited[2] = Mapping.nodes[visited[1]].children[1]
    /\ origin = <<visited[2]>>

\* C9: a fetched node whose rendered parts are empty or whitespace only (or
\* that has no message or no parts) yields no block and the traversal moves
\* on to its first child; so every block has a body that is not blank.
C9_BlankSuppressed ==
    [][/\ AtMapping' =>
             \A i \in 1..Len(origin') : ~IsBlank(Mapping'.nodes[origin'[i]])
       /\ pc = "while" => \A n \in Keys(Mapping) :
             (Fetches(n) /\ IsBlank(Mapping.nodes[n])) =>
                 PassesOver(Mapping.nodes[n])]_vars

\* C10: count is the number of records processed so far whose write ended
\* without error; a skipped record and a failed write leave no complete file
\* and do not count; count never decreases.
C10_CountIsSavedFiles ==
    [][/\ count' = Cardinality({i \in 1..Len(outcome') : outcome'[i] = "saved"})
       /\ \A p \in DOMAIN files' :
             files'[p].complete => outcome'[files'[p].by] = "saved"
       /\ \A i \in 1..Len(outcome') :
             outcome'[i] \in {"skipped", "raised", "open_failed"} =>
                 \A p \in DOMAIN files' : files'[p].by # i
       /\ count' >= count]_vars

\* C10 witness: of two records, one write failed and one went through.
C10_Witness ==
    /\ pc = "done"
    /\ count = 1
    /\ Range(outcome) = {"write_failed", "saved"}

====
